---- MODULE Spec2Model ----
(***************************************************************************)
(* Carbon credit monitor firmware (iot/creator/src/main.cpp).              *)
(*                                                                         *)
(* setup() brings up the WiFi link, the Firebase session and the OLED,     *)
(* loop() samples two analog channels, derives the metrics, renders and    *)
(* reports them and uploads one record when Firebase.ready().  The         *)
(* program is single threaded; every action below is one statement (or a   *)
(* run of statements without an external read) of setup() or loop().  The  *)
(* link, the store, the millisecond clock and the display panel are the    *)
(* environment: they change between any two statements.                    *)
(***************************************************************************)
EXTENDS Integers, Sequences, FiniteSets, TLC

\* ------------------------------------------------------------------ bounds
\* analogRead() results explored exhaustively by DeriveSpec: 0..MaxRaw
MaxRaw == 24
\* millis() values explored: 0..MaxClock
MaxClock == 1

\* ------------------------------------------------------- program constants
\* int timeout = 20;
PollBound == 20
\* 12-bit ADC full scale of analogRead()
AdcMax == 4095

\* ------------------------------------------------- floating point helpers
\* The metrics are computed as  int * double-literal  and stored in a
\* float: the int is converted to double exactly, the product is rounded to
\* a 53-bit significand, and the assignment to a float variable rounds that
\* double to a 24-bit significand.  Products are kept as base-4096 limbs
\* (least significant first) because they need up to 65 bits.

RECURSIVE Pow2(_)
Pow2(n) == IF n <= 0 THEN 1 ELSE 2 * Pow2(n - 1)

\* IEEE-754 double nearest to 0.2 is 16r1999999999999A * 2^-55
Lit02 == [limbs |-> <<2458, 2457, 2457, 2457, 25>>, exp |-> -55]
\* 0.5 is 2^52 * 2^-53
Lit05 == [limbs |-> <<0, 0, 0, 0, 16>>, exp |-> -53]

RECURSIVE MulLimbs(_, _, _, _)
MulLimbs(n, limbs, i, carry) ==
    IF i > Len(limbs) THEN <<carry>>
    ELSE LET t == n * limbs[i] + carry
         IN  <<t % 4096>> \o MulLimbs(n, limbs, i + 1, t \div 4096)

Bit(P, k) == IF k < 0 \/ k >= 12 * Len(P) THEN 0
             ELSE (P[(k \div 12) + 1] \div Pow2(k % 12)) % 2

RECURSIVE TopBit(_, _)
TopBit(P, k) == IF k < 0 THEN -1
                ELSE IF Bit(P, k) = 1 THEN k ELSE TopBit(P, k - 1)

\* the integer made of bits hi..lo of P
RECURSIVE Window(_, _, _)
Window(P, hi, lo) == IF hi < lo THEN 0
                     ELSE 2 * Window(P, hi, lo + 1) + Bit(P, lo)

RECURSIVE AnyBit(_, _)
AnyBit(P, hi) == IF hi < 0 THEN FALSE
                 ELSE Bit(P, hi) = 1 \/ AnyBit(P, hi - 1)

FloatZero == [m |-> 0, e |-> 0]

\* The exact product P * 2^exp rounded to double (round to nearest, ties to
\* even).  The 53-bit significand is hi * 2^29 + lo, the value is
\* (hi * 2^29 + lo) * 2^e.
RoundToDouble(P, exp) ==
    LET T      == TopBit(P, 12 * Len(P) - 1)
        hi     == Window(P, T, T - 23)
        lo     == Window(P, T - 24, T - 52)
        guard  == Bit(P, T - 53)
        sticky == AnyBit(P, T - 54)
        up     == guard = 1 /\ (sticky \/ lo % 2 = 1)
        lo1    == IF up THEN lo + 1 ELSE lo
        hi1    == IF lo1 = Pow2(29) THEN hi + 1 ELSE hi
    IN  IF T < 0 THEN [hi |-> 0, lo |-> 0, e |-> 0]
        ELSE IF hi1 = Pow2(24)
             THEN [hi |-> Pow2(23), lo |-> 0, e |-> T - 52 + exp + 1]
             ELSE [hi |-> hi1, lo |-> lo1 % Pow2(29), e |-> T - 52 + exp]

\* double -> float narrowing (round to nearest, ties to even): a float is
\* m * 2^e with 2^23 <= m < 2^24, or FloatZero
DoubleToFloat(d) ==
    LET half == Pow2(28)
        up   == d.lo > half \/ (d.lo = half /\ d.hi % 2 = 1)
        m1   == IF up THEN d.hi + 1 ELSE d.hi
    IN  IF d.hi = 0 THEN FloatZero
        ELSE IF m1 = Pow2(24) THEN [m |-> Pow2(23), e |-> d.e + 29 + 1]
             ELSE [m |-> m1, e |-> d.e + 29]

\* float f = n * lit;   (n a non-negative int, lit a double literal)
IntTimesLiteral(n, lit) ==
    DoubleToFloat(RoundToDouble(MulLimbs(n, lit.limbs, 1, 0), lit.exp))

\* FloatGeq with the comparison written >
FloatGreater(a, b) ==
    IF a.m = 0 THEN FALSE
    ELSE IF b.m = 0 THEN TRUE
    ELSE IF a.e # b.e THEN a.e > b.e
    ELSE a.m > b.m

\* a >= b on non-negative floats
FloatGeq(a, b) ==
    IF b.m = 0 THEN TRUE
    ELSE IF a.m = 0 THEN FALSE
    ELSE IF a.e # b.e THEN a.e > b.e
    ELSE a.m >= b.m


\* Print::println(float, 1) and printf("%.1f"): the value in tenths, rounded
\* to the nearest tenth
Fmt1(f) ==
    IF f.m = 0 THEN 0
    ELSE IF f.e >= 0 THEN 10 * f.m * Pow2(f.e)
    ELSE (10 * f.m + Pow2(-f.e - 1)) \div Pow2(-f.e)

\* ------------------------------------------------------------------ state
VARIABLES
    pc,               \* the statement of setup()/loop() executed next
    conn,             \* environment: Disconnected, LinkUp or StoreReady
    displayOk,        \* environment: whether the SSD1306 panel answers
    clock,            \* environment: millis()
    timeout,          \* setup(): int timeout
    co2Reading, humidityReading, carbonCredits, emissions, offset, \* globals
    path, json,       \* loop(): String path (its key), FirebaseJson json
    errorReason,      \* fbdo.errorReason()
    boot,             \* what setup() has done so far, in order
    polls, delays,    \* Firebase.ready() calls and delay(1000) calls of the
                      \* polling loop of setup()
    pollEnd,          \* why the polling loop ended: "ready" or "exhausted"
    trace,            \* what the current loop() call has done so far
    rendered,         \* the display: its lines as <<label, value>>
    reported,         \* the Serial.printf line of the current loop() call,
                      \* as <<label, value>> for each conversion
    written,          \* the last Firebase.setJSON call: path, record and the
                      \* Connection State at the moment of the call
    failDiag          \* the reason printed by the last "Upload failed" line

env    == <<conn, displayOk, clock>>
metric == <<co2Reading, humidityReading, carbonCredits, emissions, offset>>
start  == <<timeout, boot, polls, delays, pollEnd>>
cycle  == <<path, json, errorReason, trace, rendered, reported, written,
            failDiag>>
vars   == <<pc, env, metric, start, cycle>>

\* values analogRead() returns in the full model
Samples == {0, 1000}
\* reasons fbdo.errorReason() reports
Reasons == {"connection lost", "permission denied"}
NoKey   == -1
NoWrite == [key |-> NoKey, record |-> <<>>, at |-> "none"]

Init ==
    /\ pc = "serial_begin"
    /\ conn = "Disconnected"
    /\ displayOk \in BOOLEAN
    /\ clock = 0
    /\ timeout = 0
    /\ co2Reading = 0 /\ humidityReading = 0
    /\ carbonCredits = FloatZero /\ emissions = FloatZero
    /\ offset = FALSE
    /\ path = NoKey /\ json = <<>>
    /\ errorReason = ""
    /\ boot = <<>>
    /\ polls = 0 /\ delays = 0 /\ pollEnd = "none"
    /\ trace = <<>>
    /\ rendered = <<>> /\ reported = <<>>
    /\ written = NoWrite
    /\ failDiag = ""

\* ------------------------------------------------------------ environment
Did(ev) == \E i \in 1..Len(boot) : boot[i] = ev

\* WiFi.status() == WL_CONNECTED
WiFiConnected == conn # "Disconnected"
\* Firebase.ready()
FirebaseReady == conn = "StoreReady"

LinkComesUp ==
    /\ Did("WiFi.begin") /\ conn = "Disconnected"
    /\ conn' = "LinkUp"
    /\ UNCHANGED <<pc, displayOk, clock, metric, start, cycle>>

StoreComesUp ==
    /\ Did("Firebase.begin") /\ conn = "LinkUp"
    /\ conn' = "StoreReady"
    /\ UNCHANGED <<pc, displayOk, clock, metric, start, cycle>>

StoreGoesDown ==
    /\ conn = "StoreReady"
    /\ conn' = "LinkUp"
    /\ UNCHANGED <<pc, displayOk, clock, metric, start, cycle>>

LinkDrops ==
    /\ conn # "Disconnected"
    /\ conn' = "Disconnected"
    /\ UNCHANGED <<pc, displayOk, clock, metric, start, cycle>>

Tick ==
    /\ clock < MaxClock
    /\ clock' = clock + 1
    /\ UNCHANGED <<pc, conn, displayOk, metric, start, cycle>>

Environment ==
    LinkComesUp \/ StoreComesUp \/ StoreGoesDown \/ LinkDrops \/ Tick

\* ---------------------------------------------------------------- setup()
Goto(from, to) == pc = from /\ pc' = to

\* SerialBegin followed by the OLED setup instead of the WiFi setup
SerialBeginThenDisplay ==
    /\ Goto("serial_begin", "oled_begin")
    /\ UNCHANGED <<env, metric, start, cycle>>

SerialBegin ==
    /\ Goto("serial_begin", "wifi_begin")
    /\ UNCHANGED <<env, metric, start, cycle>>

WiFiBegin ==
    /\ Goto("wifi_begin", "wifi_wait")
    /\ boot' = Append(boot, "WiFi.begin")
    /\ UNCHANGED <<env, metric, timeout, polls, delays, pollEnd, cycle>>

\* WiFiWaitDown that gives up on the link and goes on
WiFiWaitDownGivesUp ==
    /\ ~WiFiConnected
    /\ Goto("wifi_wait", "wifi_config")
    /\ UNCHANGED <<env, metric, start, cycle>>

\* while (WiFi.status() != WL_CONNECTED)
WiFiWaitDown ==
    /\ ~WiFiConnected
    /\ Goto("wifi_wait", "wifi_delay")
    /\ UNCHANGED <<env, metric, start, cycle>>

\* delay(300); Serial.print(".");
WiFiDelay ==
    /\ Goto("wifi_delay", "wifi_wait")
    /\ UNCHANGED <<env, metric, start, cycle>>

\* WiFiWaitUp that goes on without the WiFi.config call
WiFiWaitUpSkipsConfig ==
    /\ WiFiConnected
    /\ Goto("wifi_wait", "firebase_begin")
    /\ boot' = Append(boot, "link up")
    /\ UNCHANGED <<env, metric, timeout, polls, delays, pollEnd, cycle>>

WiFiWaitUp ==
    /\ WiFiConnected
    /\ Goto("wifi_wait", "wifi_config")
    /\ boot' = Append(boot, "link up")
    /\ UNCHANGED <<env, metric, timeout, polls, delays, pollEnd, cycle>>

\* WiFi.config(..., 8.8.8.8, 8.8.4.4) and the "WiFi Connected!" lines
WiFiConfig ==
    /\ Goto("wifi_config", "firebase_begin")
    /\ boot' = Append(boot, "WiFi.config")
    /\ UNCHANGED <<env, metric, timeout, polls, delays, pollEnd, cycle>>

FirebaseBegin ==
    /\ Goto("firebase_begin", "firebase_reconnect")
    /\ boot' = Append(boot, "Firebase.begin")
    /\ UNCHANGED <<env, metric, timeout, polls, delays, pollEnd, cycle>>

\* Firebase.reconnectWiFi(true); ... int timeout = 20;
FirebaseReconnect ==
    /\ Goto("firebase_reconnect", "firebase_poll")
    /\ boot' = Append(boot, "Firebase.reconnectWiFi")
    /\ timeout' = PollBound
    /\ UNCHANGED <<env, metric, polls, delays, pollEnd, cycle>>

\* while (!Firebase.ready() && timeout-- > 0): the store answers ready, the
\* right operand is not evaluated
PollReady ==
    /\ FirebaseReady
    /\ Goto("firebase_poll", "firebase_check")
    /\ polls' = polls + 1
    /\ pollEnd' = "ready"
    /\ UNCHANGED <<env, metric, timeout, boot, delays, cycle>>

\* PollNotReady with the test written timeout-- >= 0
PollNotReadyInclusive ==
    /\ ~FirebaseReady
    /\ pc = "firebase_poll"
    /\ polls' = polls + 1
    /\ timeout' = timeout - 1
    /\ IF timeout >= 0
       THEN pc' = "firebase_delay" /\ pollEnd' = pollEnd
       ELSE pc' = "firebase_check" /\ pollEnd' = "exhausted"
    /\ UNCHANGED <<env, metric, boot, delays, cycle>>

\* PollNotReady with the test written --timeout > 0
PollNotReadyPreDecrement ==
    /\ ~FirebaseReady
    /\ pc = "firebase_poll"
    /\ polls' = polls + 1
    /\ timeout' = timeout - 1
    /\ IF timeout - 1 > 0
       THEN pc' = "firebase_delay" /\ pollEnd' = pollEnd
       ELSE pc' = "firebase_check" /\ pollEnd' = "exhausted"
    /\ UNCHANGED <<env, metric, boot, delays, cycle>>

\* the store answers not ready: timeout-- > 0 decides, and decrements
PollNotReady ==
    /\ ~FirebaseReady
    /\ pc = "firebase_poll"
    /\ polls' = polls + 1
    /\ timeout' = timeout - 1
    /\ IF timeout > 0
       THEN pc' = "firebase_delay" /\ pollEnd' = pollEnd
       ELSE pc' = "firebase_check" /\ pollEnd' = "exhausted"
    /\ UNCHANGED <<env, metric, boot, delays, cycle>>

\* delay(1000); Serial.print(".");
PollDelay ==
    /\ Goto("firebase_delay", "firebase_poll")
    /\ delays' = delays + 1
    /\ UNCHANGED <<env, metric, timeout, boot, polls, pollEnd, cycle>>

\* StartupDiag with the two branches swapped
StartupDiagSwapped(ready) ==
    IF ready THEN "Firebase Timeout!" ELSE "Firebase Connected!"

\* if (Firebase.ready()) "Firebase Connected!" else "Firebase Timeout!"
StartupDiag(ready) ==
    IF ready THEN "Firebase Connected!" ELSE "Firebase Timeout!"

\* FirebaseCheck that reports how the polling loop ended instead of polling
FirebaseCheckByLoopResult ==
    /\ Goto("firebase_check", "oled_begin")
    /\ boot' = boot \o <<IF FirebaseReady THEN "check: ready"
                                          ELSE "check: not ready",
                         StartupDiag(pollEnd = "ready")>>
    /\ UNCHANGED <<env, metric, timeout, polls, delays, pollEnd, cycle>>

FirebaseCheck ==
    /\ Goto("firebase_check", "oled_begin")
    /\ boot' = boot \o <<IF FirebaseReady THEN "check: ready"
                                          ELSE "check: not ready",
                         StartupDiag(FirebaseReady)>>
    /\ UNCHANGED <<env, metric, timeout, polls, delays, pollEnd, cycle>>

\* DisplayBeginOk with the test written without the negation
DisplayBeginOkHalts ==
    /\ displayOk
    /\ Goto("oled_begin", "oled_failed")
    /\ boot' = Append(boot, "display.begin")
    /\ UNCHANGED <<env, metric, timeout, polls, delays, pollEnd, cycle>>

\* if (!display.begin(SSD1306_SWITCHCAPVCC, 0x3C))
DisplayBeginOk ==
    /\ displayOk
    /\ Goto("oled_begin", "splash")
    /\ boot' = Append(boot, "display.begin")
    /\ UNCHANGED <<env, metric, timeout, polls, delays, pollEnd, cycle>>

DisplayBeginFails ==
    /\ ~displayOk
    /\ Goto("oled_begin", "oled_failed")
    /\ boot' = Append(boot, "display.begin")
    /\ UNCHANGED <<env, metric, timeout, polls, delays, pollEnd, cycle>>

\* OledFailed without the for (;;);
OledFailedGoesOn ==
    /\ Goto("oled_failed", "splash")
    /\ boot' = Append(boot, "OLED failed")
    /\ UNCHANGED <<env, metric, timeout, polls, delays, pollEnd, cycle>>

\* Serial.println("OLED failed"); for (;;);
OledFailed ==
    /\ Goto("oled_failed", "halt")
    /\ boot' = Append(boot, "OLED failed")
    /\ UNCHANGED <<env, metric, timeout, polls, delays, pollEnd, cycle>>

\* the splash screen, with Firebase.ready() ? "Status: OK" : "Status: ERROR"
Splash ==
    /\ Goto("splash", "splash_delay")
    /\ rendered' = <<<<"title", "Carbon Credit">>, <<"title", "Monitor">>,
                     <<"Status", IF FirebaseReady THEN "OK" ELSE "ERROR">>>>
    /\ boot' = Append(boot, "splash")
    /\ UNCHANGED <<env, metric, timeout, polls, delays, pollEnd, path, json,
                   errorReason, trace, reported, written, failDiag>>

\* delay(2000); setup() returns and loop() is called
SplashDelay ==
    /\ Goto("splash_delay", "read_co2")
    /\ UNCHANGED <<env, metric, start, cycle>>

Setup ==
    \/ SerialBegin \/ WiFiBegin \/ WiFiWaitDown \/ WiFiDelay \/ WiFiWaitUp
    \/ WiFiConfig \/ FirebaseBegin \/ FirebaseReconnect
    \/ PollReady \/ PollNotReady \/ PollDelay \/ FirebaseCheck
    \/ DisplayBeginOk \/ DisplayBeginFails \/ OledFailed
    \/ Splash \/ SplashDelay


\* ----------------------------------------------------------------- loop()
\* carbonCredits = co2Reading * 0.5; emissions = humidityReading * 0.2;
\* offset = (carbonCredits >= emissions);
Derive(c, h) ==
    LET cr == IntTimesLiteral(c, Lit05)
        em == IntTimesLiteral(h, Lit02)
    IN  [credits |-> cr, emissions |-> em, offset |-> FloatGeq(cr, em)]

\* every reading analogRead() returns in the specifications below
Readings == (0..MaxRaw) \cup {400, 800, 1000, AdcMax}

\* Derive, tabulated over the readings
Derived == [c \in Readings, h \in Readings |-> Derive(c, h)]

YesNo(b) == IF b THEN "YES" ELSE "NO"

\* json.set(key, value)
JsonSet(j, key, value) ==
    IF \E i \in 1..Len(j) : j[i][1] = key
    THEN [i \in 1..Len(j) |-> IF j[i][1] = key THEN <<key, value>> ELSE j[i]]
    ELSE Append(j, <<key, value>>)

\* co2Reading = analogRead(CO2_PIN); a new call of loop() starts here with
\* fresh locals
LoopReadCo2 ==
    /\ Goto("read_co2", "read_hum")
    /\ \E v \in Samples : co2Reading' = v
    /\ trace' = <<"read co2">>
    /\ path' = NoKey /\ json' = <<>>
    /\ reported' = <<>> /\ written' = NoWrite /\ failDiag' = ""
    /\ UNCHANGED <<env, humidityReading, carbonCredits, emissions, offset,
                   start, errorReason, rendered>>

\* humidityReading = analogRead(HUMIDITY_PIN);
LoopReadHumidity ==
    /\ Goto("read_hum", "derive")
    /\ \E v \in Samples : humidityReading' = v
    /\ trace' = Append(trace, "read humidity")
    /\ UNCHANGED <<env, co2Reading, carbonCredits, emissions, offset, start,
                   path, json, errorReason, rendered, reported, written,
                   failDiag>>

LoopDerive ==
    /\ Goto("derive", "render")
    /\ LET d == Derived[co2Reading, humidityReading]
       IN  /\ carbonCredits' = d.credits
           /\ emissions' = d.emissions
           /\ offset' = d.offset
    /\ trace' = Append(trace, "derive")
    /\ UNCHANGED <<env, co2Reading, humidityReading, start, path, json,
                   errorReason, rendered, reported, written, failDiag>>

\* the lines display.display() shows at the end of lines 105-116
Screen ==
    <<<<"title", "Carbon Credit">>, <<"CO2", co2Reading>>,
      <<"Humid", humidityReading>>, <<"Credits", Fmt1(carbonCredits)>>,
      <<"Offset", YesNo(offset)>>>>

\* the line "CO2:%d Hum:%d Credits:%.1f Offset:%s\n" prints
DiagLine ==
    <<<<"CO2", co2Reading>>, <<"Hum", humidityReading>>,
      <<"Credits", Fmt1(carbonCredits)>>, <<"Offset", YesNo(offset)>>>>

\* LoopRender inside the if (Firebase.ready()) block
LoopRenderGated ==
    /\ Goto("render", "report")
    /\ IF FirebaseReady
       THEN /\ rendered' = Screen
            /\ trace' = Append(trace, "render")
       ELSE UNCHANGED <<rendered, trace>>
    /\ UNCHANGED <<env, metric, start, path, json, errorReason, reported,
                   written, failDiag>>

\* display.clearDisplay(); ... display.display();
LoopRender ==
    /\ Goto("render", "report")
    /\ rendered' = Screen
    /\ trace' = Append(trace, "render")
    /\ UNCHANGED <<env, metric, start, path, json, errorReason, reported,
                   written, failDiag>>

\* LoopReport with the two int arguments of the printf exchanged
LoopReportSwapped ==
    /\ Goto("report", "ready")
    /\ reported' = <<<<"CO2", humidityReading>>, <<"Hum", co2Reading>>,
                     <<"Credits", Fmt1(carbonCredits)>>,
                     <<"Offset", YesNo(offset)>>>>
    /\ trace' = Append(trace, "report")
    /\ UNCHANGED <<env, metric, start, path, json, errorReason, rendered,
                   written, failDiag>>

\* Serial.printf("CO2:%d Hum:%d Credits:%.1f Offset:%s\n", ...)
LoopReport ==
    /\ Goto("report", "ready")
    /\ reported' = DiagLine
    /\ trace' = Append(trace, "report")
    /\ UNCHANGED <<env, metric, start, path, json, errorReason, rendered,
                   written, failDiag>>

\* LoopReady without the test: the upload block runs unconditionally
LoopReadyUngated ==
    /\ pc = "ready"
    /\ pc' = "path"
    /\ trace' = Append(trace, IF FirebaseReady THEN "ready: true"
                                               ELSE "ready: false")
    /\ UNCHANGED <<env, metric, start, path, json, errorReason, rendered,
                   reported, written, failDiag>>

\* LoopReady that tests the answer of the startup check instead of polling
LoopReadyCached ==
    /\ pc = "ready"
    /\ pc' = IF Did("check: ready") THEN "path" ELSE "not_ready"
    /\ trace' = Append(trace, IF FirebaseReady THEN "ready: true"
                                               ELSE "ready: false")
    /\ UNCHANGED <<env, metric, start, path, json, errorReason, rendered,
                   reported, written, failDiag>>

\* if (Firebase.ready()) { upload } else { "Firebase not ready" }
LoopReady ==
    /\ pc = "ready"
    /\ pc' = IF FirebaseReady THEN "path" ELSE "not_ready"
    /\ trace' = Append(trace, IF FirebaseReady THEN "ready: true"
                                               ELSE "ready: false")
    /\ UNCHANGED <<env, metric, start, path, json, errorReason, rendered,
                   reported, written, failDiag>>

\* String path = "/carbon_data/" + String(millis());
LoopPath ==
    /\ Goto("path", "json")
    /\ path' = clock
    /\ trace' = Append(trace, "path")
    /\ UNCHANGED <<env, metric, start, json, errorReason, rendered, reported,
                   written, failDiag>>

\* LoopJson with the values of the two metrics exchanged
LoopJsonSwapped ==
    /\ Goto("json", "setJSON")
    /\ json' = JsonSet(JsonSet(JsonSet(JsonSet(JsonSet(JsonSet(<<>>,
                   "co2", co2Reading),
                   "humidity", humidityReading),
                   "credits", emissions),
                   "emissions", carbonCredits),
                   "offset", offset),
                   "timestamp", clock)
    /\ trace' = Append(trace, "json")
    /\ UNCHANGED <<env, metric, start, path, errorReason, rendered, reported,
                   written, failDiag>>

\* FirebaseJson json; json.set("co2", co2Reading); ...
\* json.set("timestamp", millis());
LoopJson ==
    /\ Goto("json", "setJSON")
    /\ json' = JsonSet(JsonSet(JsonSet(JsonSet(JsonSet(JsonSet(<<>>,
                   "co2", co2Reading),
                   "humidity", humidityReading),
                   "credits", carbonCredits),
                   "emissions", emissions),
                   "offset", offset),
                   "timestamp", clock)
    /\ trace' = Append(trace, "json")
    /\ UNCHANGED <<env, metric, start, path, errorReason, rendered, reported,
                   written, failDiag>>

\* Firebase.setJSON(fbdo, path, json) returns true
SetJsonOk ==
    /\ FirebaseReady
    /\ Goto("setJSON", "uploaded")
    /\ written' = [key |-> path, record |-> json, at |-> conn]
    /\ errorReason' = ""
    /\ trace' = Append(trace, "setJSON")
    /\ UNCHANGED <<env, metric, start, path, json, rendered, reported,
                   failDiag>>

\* Firebase.setJSON(fbdo, path, json) returns false and fbdo holds the reason
SetJsonFails ==
    /\ Goto("setJSON", "upload_failed")
    /\ written' = [key |-> path, record |-> json, at |-> conn]
    /\ \E r \in Reasons : errorReason' = r
    /\ trace' = Append(trace, "setJSON")
    /\ UNCHANGED <<env, metric, start, path, json, rendered, reported,
                   failDiag>>

\* Serial.println("Uploaded to Firebase")
LoopUploaded ==
    /\ Goto("uploaded", "delay")
    /\ trace' = Append(trace, "uploaded")
    /\ UNCHANGED <<env, metric, start, path, json, errorReason, rendered,
                   reported, written, failDiag>>

\* LoopUploadFailed that gives up after reporting the failure
LoopUploadFailedAborts ==
    /\ Goto("upload_failed", "halt")
    /\ failDiag' = errorReason
    /\ trace' = Append(trace, "upload failed")
    /\ UNCHANGED <<env, metric, start, path, json, errorReason, rendered,
                   reported, written>>

\* LoopUploadFailed that offers the record to the store again
LoopUploadFailedRetries ==
    /\ Goto("upload_failed", "setJSON")
    /\ failDiag' = errorReason
    /\ trace' = Append(trace, "upload failed")
    /\ UNCHANGED <<env, metric, start, path, json, errorReason, rendered,
                   reported, written>>

\* Serial.print("Upload failed: "); Serial.println(fbdo.errorReason());
LoopUploadFailed ==
    /\ Goto("upload_failed", "delay")
    /\ failDiag' = errorReason
    /\ trace' = Append(trace, "upload failed")
    /\ UNCHANGED <<env, metric, start, path, json, errorReason, rendered,
                   reported, written>>

\* Serial.println("Firebase not ready")
LoopNotReady ==
    /\ Goto("not_ready", "delay")
    /\ trace' = Append(trace, "not ready")
    /\ UNCHANGED <<env, metric, start, path, json, errorReason, rendered,
                   reported, written, failDiag>>

\* delay(5000); loop() returns and is called again
LoopDelay ==
    /\ Goto("delay", "read_co2")
    /\ trace' = Append(trace, "delay")
    /\ UNCHANGED <<env, metric, start, path, json, errorReason, rendered,
                   reported, written, failDiag>>

Loop ==
    \/ LoopReadCo2 \/ LoopReadHumidity \/ LoopDerive \/ LoopRender
    \/ LoopReport \/ LoopReady \/ LoopPath \/ LoopJson
    \/ SetJsonOk \/ SetJsonFails \/ LoopUploaded \/ LoopUploadFailed
    \/ LoopNotReady \/ LoopDelay

\* -------------------------------------------------------- specifications
Program == Setup \/ Loop

Next == Program \/ Environment

Spec == Init /\ [][Next]_vars

\* the processor always executes the next statement; the environment owes
\* nothing
FairSpec == Spec /\ WF_vars(Program)

\* the metric derivation alone, over every pair of raw readings
DeriveInit ==
    /\ pc = "derive"
    /\ conn = "LinkUp"
    /\ displayOk = TRUE
    /\ clock = 0
    /\ timeout = 0
    /\ co2Reading \in Readings /\ humidityReading \in Readings
    /\ carbonCredits = FloatZero /\ emissions = FloatZero
    /\ offset = FALSE
    /\ path = NoKey /\ json = <<>>
    /\ errorReason = ""
    /\ boot = <<>>
    /\ polls = 0 /\ delays = 0 /\ pollEnd = "none"
    /\ trace = <<"read co2", "read humidity">>
    /\ rendered = <<>> /\ reported = <<>>
    /\ written = NoWrite
    /\ failDiag = ""

DeriveNext == LoopDerive

DeriveSpec == DeriveInit /\ [][DeriveNext]_vars


\* ------------------------------------------------------------ properties
Has(ev) == \E i \in 1..Len(trace) : trace[i] = ev
Pos(ev) == CHOOSE i \in 1..Len(trace) : trace[i] = ev
Count(seq, ev) == Cardinality({i \in 1..Len(seq) : seq[i] = ev})
IsPrefix(a, b) == Len(a) <= Len(b) /\ \A i \in 1..Len(a) : a[i] = b[i]

\* C1: in a cycle whose readiness check returned false no write call is
\* issued (the upload block is not entered at all) and the "not ready"
\* diagnostic is the step that follows the check; a write call is issued in
\* a cycle only after that cycle's readiness check returned true.
C1_NoWriteUnlessReady ==
    /\ Has("ready: false") =>
         /\ ~Has("path") /\ ~Has("json") /\ ~Has("setJSON")
         /\ written = NoWrite
         /\ pc \in {"not_ready", "delay", "read_co2"}
         /\ pc # "not_ready" => Has("not ready")
         /\ Len(trace) > Pos("ready: false") =>
                trace[Pos("ready: false") + 1] = "not ready"
    /\ Has("setJSON") =>
         /\ Has("ready: true")
         /\ Pos("ready: true") < Pos("setJSON")
    /\ Has("not ready") => Has("ready: false")

C1_Witness ==
    Has("ready: false") /\ Has("not ready") /\ Has("delay")

\* C2 as stated: whenever Firebase.setJSON is issued the Connection State
\* at the moment of the call is StoreReady.
C2_WriteOnlyWhileStoreReady ==
    written.at \in {"none", "StoreReady"}

\* C2 amended: whenever Firebase.setJSON is issued, the readiness check of
\* the same cycle (the step before the path is built) found the store
\* ready; at the moment of the call the Connection State is any of the
\* three.
C2_WriteOnlyAfterReadyCheck ==
    /\ written.at \in {"none", "StoreReady", "LinkUp", "Disconnected"}
    /\ written.at # "none" =>
         /\ Len(trace) >= 9
         /\ trace[6] = "ready: true"
         /\ trace[9] = "setJSON"

\* a write was issued after the store regressed
C2_Witness ==
    written.at \in {"LinkUp", "Disconnected"} /\ Has("upload failed")

\* C3 as stated: when the polling loop of setup() ends because the bound is
\* exhausted it has called Firebase.ready() exactly 20 times.
C3_ExactlyBoundPolls ==
    pollEnd = "exhausted" => polls = PollBound

\* C3 amended: when the polling loop ends because the bound is exhausted it
\* has called Firebase.ready() exactly 21 times and delayed exactly 20
\* times, and timeout is left at -1; while it runs, polls never exceed 21.
C3_BoundPlusOnePolls ==
    /\ pollEnd = "exhausted" =>
         polls = PollBound + 1 /\ delays = PollBound /\ timeout = -1
    /\ polls <= PollBound + 1 /\ delays <= PollBound
    /\ pc = "firebase_poll" => polls = delays /\ timeout = PollBound - delays

C3_Witness ==
    pollEnd = "exhausted" /\ pc = "firebase_check"


\* C4 as stated: once the poll bound is exhausted the device does not halt,
\* whatever the display's init result is.
C4_NeverHaltsAfterTimeout ==
    pollEnd = "exhausted" => pc \notin {"oled_failed", "halt"}

\* C4 amended: when the polling loop of setup() ends with its bound
\* exhausted and the display initializes, setup() finishes and the first
\* cycle reads the sensors, renders and emits its diagnostic line; the
\* device halts instead only when display.begin fails.
C4_ReachesFirstCycleIfDisplayOk ==
    /\ (pc = "firebase_check" /\ pollEnd = "exhausted" /\ displayOk)
           ~> (pc = "ready" /\ Has("render") /\ Has("report"))
    /\ [](pollEnd = "exhausted" /\ pc \in {"oled_failed", "halt"}
              => ~displayOk)

C4_Witness ==
    /\ pollEnd = "exhausted" /\ Did("Firebase Timeout!")
    /\ pc = "ready" /\ Has("report") /\ conn = "LinkUp"

\* C5 as stated: when every poll of the startup polling loop returned not
\* ready, the timeout diagnostic has been emitted exactly once as soon as
\* setup() is past its startup diagnostic.
C5_TimeoutLoggedOnce ==
    (pollEnd = "exhausted" /\ Did("Firebase.begin")
        /\ pc \notin {"firebase_reconnect", "firebase_poll",
                      "firebase_delay", "firebase_check"})
    => Count(boot, "Firebase Timeout!") = 1

LoopPcs ==
    {"read_co2", "read_hum", "derive", "render", "report", "ready", "path",
     "json", "setJSON", "uploaded", "upload_failed", "not_ready", "delay"}

\* C5 amended: when every poll of the polling loop returned not ready and
\* the readiness check that follows the loop (line 69) is not ready either,
\* the timeout diagnostic is emitted exactly once, in setup(); when that
\* check finds the store ready "Firebase Connected!" is emitted instead and
\* the timeout diagnostic never; no cycle emits either of them.
C5_TimeoutLoggedOnceIfCheckFails ==
    /\ [](/\ Count(boot, "Firebase Timeout!") <= 1
          /\ (pollEnd = "exhausted" /\ Did("check: not ready")) =>
                /\ Count(boot, "Firebase Timeout!") = 1
                /\ ~Did("Firebase Connected!")
          /\ (pollEnd = "exhausted" /\ Did("check: ready")) =>
                /\ Count(boot, "Firebase Timeout!") = 0
                /\ Did("Firebase Connected!"))
    /\ [][(pc \in LoopPcs) => boot' = boot]_vars

C5_Witness ==
    /\ pollEnd = "exhausted" /\ Count(boot, "Firebase Timeout!") = 1
    /\ Has("delay")

FailedCycle ==
    <<"read co2", "read humidity", "derive", "render", "report",
      "ready: true", "path", "json", "setJSON", "upload failed", "delay">>

\* C6: when the write call of a cycle reports failure the cycle completes:
\* render and diagnostic line were executed before it, the failure
\* diagnostic carries the reason the store reported, the next step is the
\* fixed sleep, then the next cycle reads both sensor channels.
C6_FailedWriteCompletesCycle ==
    /\ [](pc = "upload_failed" =>
              /\ IsPrefix(trace, FailedCycle) /\ Len(trace) = 9
              /\ rendered = Screen
              /\ reported = DiagLine
              /\ errorReason \in Reasons)
    /\ [](Has("upload failed") =>
              /\ IsPrefix(trace, FailedCycle)
              /\ failDiag = errorReason /\ failDiag \in Reasons
              /\ pc \in {"delay", "read_co2"})
    /\ [][pc = "upload_failed" /\ pc' # pc => pc' = "delay"]_vars
    /\ [][pc = "delay" /\ pc' # pc => pc' = "read_co2"]_vars
    /\ (pc = "upload_failed")
           ~> (pc = "derive" /\ trace = <<"read co2", "read humidity">>)

C6_Witness ==
    Has("upload failed") /\ Has("delay") /\ failDiag \in Reasons

Field(j, key) == j[CHOOSE i \in 1..Len(j) : j[i][1] = key][2]

\* C7: a cycle issues at most one write call, a failed write is followed by
\* the sleep and not by another call, and the record of every call is built
\* from the readings sampled and the metrics derived in that same cycle.
C7_NoRetryNoBuffer ==
    /\ [](/\ Count(trace, "setJSON") <= 1
          /\ Has("upload failed") => Pos("upload failed") = Len(trace)
                                       \/ trace[Len(trace)] = "delay"
          /\ written # NoWrite =>
                /\ IsPrefix(<<"read co2", "read humidity", "derive">>, trace)
                /\ Has("setJSON")
                /\ Field(written.record, "co2") = co2Reading
                /\ Field(written.record, "humidity") = humidityReading
                /\ Field(written.record, "credits") = carbonCredits
                /\ Field(written.record, "emissions") = emissions
                /\ Field(written.record, "offset") = offset)
    /\ [][written' # written =>
              \/ written = NoWrite /\ pc = "setJSON"
              \/ written' = NoWrite /\ pc = "read_co2"]_vars

\* a later cycle issued its own write after an earlier cycle's write failed
C7_Witness ==
    /\ Has("upload failed") /\ Has("delay")
    /\ Count(trace, "setJSON") = 1


\* the float f holds exactly num / den
FloatIs(f, num, den) ==
    IF num = 0 THEN f = FloatZero
    ELSE /\ f.m # 0 /\ f.e <= 0 /\ f.e >= -30
         /\ (f.m * den) % Pow2(-f.e) = 0
         /\ (f.m * den) \div Pow2(-f.e) = num

\* the float f is a float nearest to num / den: within half a unit of its
\* last place
FloatNearest(f, num, den) ==
    IF num = 0 THEN f = FloatZero
    ELSE /\ f.m >= Pow2(23) /\ f.m < Pow2(24) /\ f.e <= 0 /\ f.e >= -30
         /\ LET d == den * f.m - num * Pow2(-f.e)
            IN  2 * d <= den /\ -2 * d <= den

\* C8: for every pair of raw readings (c, h), the derivation of loop()
\* leaves credits = c / 2 exactly, emissions = the float value of h / 5
\* (exactly h / 5 whenever that is a float, as for every multiple of 5), and
\* offset true exactly when 5 * c >= 2 * h; (800, 400) gives
\* (400.0, 80.0, true) and (0, 1000) gives (0.0, 200.0, false).
C8_DeriveIsLinear ==
    pc = "render" =>
        /\ FloatIs(carbonCredits, co2Reading, 2)
        /\ FloatNearest(emissions, humidityReading, 5)
        /\ humidityReading % 5 = 0 =>
               FloatIs(emissions, humidityReading \div 5, 1)
        /\ offset = (5 * co2Reading >= 2 * humidityReading)
        /\ (co2Reading = 800 /\ humidityReading = 400) =>
               /\ carbonCredits = [m |-> 400 * Pow2(15), e |-> -15]
               /\ emissions = [m |-> 80 * Pow2(17), e |-> -17]
               /\ offset = TRUE
        /\ (co2Reading = 0 /\ humidityReading = 1000) =>
               /\ carbonCredits = FloatZero
               /\ emissions = [m |-> 200 * Pow2(16), e |-> -16]
               /\ offset = FALSE

\* the derivation ran on a pair where credits equal emissions
C8_Witness ==
    /\ pc = "render" /\ co2Reading = 2 /\ humidityReading = 5
    /\ offset = TRUE /\ Has("derive")

ReadyCycle ==
    <<"read co2", "read humidity", "derive", "render", "report",
      "ready: true", "path", "json", "setJSON">>
CycleShapes ==
    { ReadyCycle \o <<"uploaded", "delay">>,
      FailedCycle,
      <<"read co2", "read humidity", "derive", "render", "report",
        "ready: false", "not ready", "delay">> }

\* the trace a call of loop() has when it is about to execute pc
TraceAt(p) ==
    CASE p = "read_hum" -> 1
      [] p = "derive" -> 2
      [] p = "render" -> 3
      [] p = "report" -> 4
      [] p = "ready" -> 5
      [] p \in {"path", "not_ready"} -> 6
      [] p = "json" -> 7
      [] p = "setJSON" -> 8
      [] p \in {"uploaded", "upload_failed"} -> 9
      [] OTHER -> 0

\* C9: whatever the link and the store do, a cycle is read co2, read
\* humidity, derive, render, diagnostic line, readiness check, then the
\* upload or the not-ready line, then the sleep: render and diagnostic line
\* happen exactly once each and before the readiness check and the write,
\* the sleep is the last step, and a cycle starts only when the previous
\* one has slept.
C9_CycleOrder ==
    /\ [](/\ \E shape \in CycleShapes : IsPrefix(trace, shape)
          /\ (pc \in LoopPcs /\ pc \notin {"read_co2", "delay"}) =>
                Len(trace) = TraceAt(pc)
          /\ pc = "delay" => Len(trace) \in {7, 10}
          /\ pc = "read_co2" => trace = <<>> \/ trace[Len(trace)] = "delay"
          /\ Has("delay") =>
                /\ pc = "read_co2" /\ trace \in CycleShapes
                /\ Count(trace, "render") = 1 /\ Count(trace, "report") = 1
          /\ Has("ready: true") \/ Has("ready: false") =>
                Count(trace, "render") = 1 /\ Count(trace, "report") = 1
          /\ pc \notin LoopPcs => trace = <<>>)
    /\ [][pc' = "read_hum" /\ pc # pc' =>
              pc = "read_co2" /\ (trace = <<>> \/ Has("delay"))]_vars

\* a cycle ran to its sleep with the link down
C9_Witness ==
    /\ Has("delay") /\ Has("render") /\ Has("report")
    /\ conn = "Disconnected"

\* C10: when display.begin fails the failure diagnostic is emitted and the
\* device stays in the for (;;) of setup(): no cycle step, no sensor read,
\* no render (not even the splash screen) and no store write ever happens.
C10_DisplayFailureHalts ==
    /\ []((Did("display.begin") /\ ~displayOk) =>
              /\ pc \in {"oled_failed", "halt"}
              /\ pc = "halt" <=> Did("OLED failed")
              /\ trace = <<>> /\ rendered = <<>> /\ reported = <<>>
              /\ written = NoWrite /\ ~Did("splash"))
    /\ [](pc = "halt" => Did("OLED failed") /\ ~displayOk)
    /\ [][pc = "halt" =>
              pc' = "halt" /\ UNCHANGED <<metric, start, cycle>>]_vars

\* the device is halted while the store is ready
C10_Witness ==
    pc = "halt" /\ Did("OLED failed") /\ conn = "StoreReady"


LinkWaitPcs == {"serial_begin", "wifi_begin", "wifi_wait", "wifi_delay"}

\* C11: until WiFi.status() has reported the link up, setup() is in the
\* link wait: a poll that finds the link down is followed by the delay and
\* the delay by the next poll, with no count of attempts; nothing of the
\* later startup (WiFi.config, Firebase.begin, reconnect, readiness polls,
\* display.begin) and no cycle step has happened.  A link reported up is
\* followed by the rest of startup, and a link that stays up is reported.
C11_LinkWaitUnbounded ==
    /\ [](~Did("link up") =>
              /\ pc \in LinkWaitPcs
              /\ boot \in {<<>>, <<"WiFi.begin">>}
              /\ polls = 0 /\ delays = 0 /\ pollEnd = "none"
              /\ trace = <<>> /\ rendered = <<>> /\ written = NoWrite)
    /\ [](pc \notin LinkWaitPcs => Did("link up"))
    /\ [][(pc = "wifi_wait" /\ pc' # pc) =>
              pc' = IF WiFiConnected THEN "wifi_config" ELSE "wifi_delay"]_vars
    /\ [][(pc = "wifi_delay" /\ pc' # pc) => pc' = "wifi_wait"]_vars
    /\ Did("link up") ~> Did("WiFi.config")
    /\ <>[](conn # "Disconnected") => <>Did("link up")

\* the link came up while setup() was in the delay of the link wait
C11_Witness ==
    pc = "wifi_delay" /\ conn = "LinkUp" /\ ~Did("link up")


\* C12: for every write call the key of the path equals the "timestamp"
\* field of the record written by that call.
C12_KeyIsTimestamp ==
    written.at # "none" =>
        written.key = Field(written.record, "timestamp")


ReadyPolls == Count(trace, "ready: true") + Count(trace, "ready: false")

\* C13: after a startup timeout every cycle polls Firebase.ready() exactly
\* once, after its diagnostic line; a cycle whose poll returns true builds
\* the record and issues the write in that same cycle, with no other step
\* in between and whatever setup() found.
C13_DegradedModeNotSticky ==
    /\ [](Did("Firebase Timeout!") =>
              /\ ReadyPolls <= 1
              /\ Len(trace) >= 6 => ReadyPolls = 1
              /\ Has("ready: true") =>
                     /\ trace[6] = "ready: true"
                     /\ pc \in {"path", "json", "setJSON"} \/ Has("setJSON")
              /\ Has("delay") /\ Has("ready: true") => Has("setJSON"))
    /\ [][(Did("Firebase Timeout!") /\ pc = "ready" /\ pc' # pc) =>
              pc' = IF FirebaseReady THEN "path" ELSE "not_ready"]_vars
    /\ (Did("Firebase Timeout!") /\ pc = "path") ~> Has("setJSON")

\* a write was issued in a cycle after setup() had timed out
C13_Witness ==
    /\ pollEnd = "exhausted" /\ Did("Firebase Timeout!")
    /\ Has("setJSON") /\ Has("uploaded")


StartupOrder ==
    <<"WiFi.begin", "link up", "WiFi.config", "Firebase.begin",
      "Firebase.reconnectWiFi">>

\* C14: what setup() does is, in this order, link reported up, WiFi.config
\* with the forced resolvers, Firebase.begin, Firebase.reconnectWiFi(true),
\* and only then the readiness polls; no run past the link wait lacks the
\* WiFi.config, and reconnection is enabled before any cycle step.
C14_StartupOrder ==
    /\ Len(boot) <= 5 => IsPrefix(boot, StartupOrder)
    /\ Len(boot) > 5 => IsPrefix(StartupOrder, boot)
    /\ \A i \in 1..5 : Count(boot, StartupOrder[i]) <= 1
    /\ polls > 0 => IsPrefix(StartupOrder, boot)
    /\ pc \in {"firebase_poll", "firebase_delay", "firebase_check"} =>
           boot = StartupOrder
    /\ (pc \notin LinkWaitPcs /\ pc # "wifi_config") => Did("WiFi.config")
    /\ (pc \in LoopPcs \/ trace # <<>>) =>
           Did("WiFi.config") /\ Did("Firebase.reconnectWiFi")

\* the first readiness poll has been made
C14_Witness ==
    pc = "firebase_delay" /\ polls = 1 /\ boot = StartupOrder


\* the line or screen carries the value under the label
Carries(line, label, value) ==
    \E i \in 1..Len(line) : line[i][1] = label /\ line[i][2] = value
Labels(line) == {line[i][1] : i \in 1..Len(line)}

\* C15 as stated: the diagnostic line of a cycle carries both raw readings,
\* credits, emissions and the offset flag.
C15_DiagLineCarriesAll ==
    reported # <<>> =>
        /\ Carries(reported, "CO2", co2Reading)
        /\ Carries(reported, "Hum", humidityReading)
        /\ Carries(reported, "Credits", Fmt1(carbonCredits))
        /\ Carries(reported, "Offset", YesNo(offset))
        /\ "Emissions" \in Labels(reported)

\* C15 amended: the diagnostic line of a cycle carries both raw readings,
\* credits (to one decimal) and the offset flag, each with the value read
\* or derived in that cycle, and nothing else: emissions is not on it.
C15_DiagLineCarriesFour ==
    reported # <<>> =>
        /\ IsPrefix(<<"read co2", "read humidity", "derive", "render",
                      "report">>, trace)
        /\ Labels(reported) = {"CO2", "Hum", "Credits", "Offset"}
        /\ Len(reported) = 4
        /\ Carries(reported, "CO2", co2Reading)
        /\ Carries(reported, "Hum", humidityReading)
        /\ Carries(reported, "Credits", 5 * co2Reading)
        /\ Carries(reported, "Offset",
                   YesNo(5 * co2Reading >= 2 * humidityReading))

\* the line of a cycle whose emissions are not zero
C15_Witness ==
    /\ reported # <<>> /\ humidityReading = 1000 /\ co2Reading = 0
    /\ emissions # FloatZero /\ pc = "ready"


RecordFields ==
    <<"co2", "humidity", "credits", "emissions", "offset", "timestamp">>

\* the record of the write call holds the values of the current cycle
RecordOfCycle ==
    /\ Len(written.record) = 6
    /\ \A i \in 1..6 : written.record[i][1] = RecordFields[i]
    /\ IsPrefix(<<"read co2", "read humidity", "derive">>, trace)
    /\ Field(written.record, "co2") = co2Reading
    /\ Field(written.record, "humidity") = humidityReading
    /\ Field(written.record, "credits") =
           Derived[co2Reading, humidityReading].credits
    /\ Field(written.record, "emissions") =
           Derived[co2Reading, humidityReading].emissions
    /\ Field(written.record, "offset") =
           Derived[co2Reading, humidityReading].offset

\* C16 as stated: every record written has exactly the six fields, the
\* first five are the values of the cycle of the write, and those five are
\* also the values rendered and reported in that cycle.
C16_RecordShownAndReported ==
    written.at # "none" =>
        /\ RecordOfCycle
        /\ Carries(rendered, "CO2", co2Reading)
        /\ Carries(reported, "CO2", co2Reading)
        /\ Carries(rendered, "Humid", humidityReading)
        /\ Carries(reported, "Hum", humidityReading)
        /\ Carries(rendered, "Credits", Fmt1(carbonCredits))
        /\ Carries(reported, "Credits", Fmt1(carbonCredits))
        /\ Carries(rendered, "Offset", YesNo(offset))
        /\ Carries(reported, "Offset", YesNo(offset))
        /\ "Emissions" \in Labels(rendered)
        /\ "Emissions" \in Labels(reported)

\* C16 amended: every record written has exactly the six fields and the
\* first five are the values of the cycle of the write; co2, humidity,
\* credits (to one decimal) and offset are also the values rendered and
\* reported in that cycle, emissions is in the record only.
C16_RecordOfCycleFourShown ==
    written.at # "none" =>
        /\ RecordOfCycle
        /\ Carries(rendered, "CO2", Field(written.record, "co2"))
        /\ Carries(reported, "CO2", Field(written.record, "co2"))
        /\ Carries(rendered, "Humid", Field(written.record, "humidity"))
        /\ Carries(reported, "Hum", Field(written.record, "humidity"))
        /\ Carries(rendered, "Credits",
                   Fmt1(Field(written.record, "credits")))
        /\ Carries(reported, "Credits",
                   Fmt1(Field(written.record, "credits")))
        /\ Carries(rendered, "Offset",
                   YesNo(Field(written.record, "offset")))
        /\ Carries(reported, "Offset",
                   YesNo(Field(written.record, "offset")))
        /\ Labels(rendered) = {"title", "CO2", "Humid", "Credits", "Offset"}
        /\ Labels(reported) = {"CO2", "Hum", "Credits", "Offset"}

\* a record with different metrics was written
C16_Witness ==
    /\ written.at # "none" /\ Has("uploaded")
    /\ co2Reading = 1000 /\ humidityReading = 0
    /\ Field(written.record, "credits") # Field(written.record, "emissions")


\* C17: the polling loop of setup() delays at most 20 times; every delay
\* follows a poll that returned not ready, so a loop ended by a ready poll
\* has delayed once per earlier poll (not at all when the first poll is
\* ready), and once the loop has ended it never delays again.
C17_BoundedStoreWait ==
    /\ [](/\ delays <= PollBound
          /\ pc = "firebase_delay" => pollEnd = "none" /\ delays = polls - 1
          /\ pollEnd = "ready" => delays = polls - 1
          /\ (pollEnd = "ready" /\ polls = 1) => delays = 0
          /\ pollEnd # "none" =>
                pc \notin {"firebase_poll", "firebase_delay"})
    /\ [][delays' # delays =>
              /\ pc = "firebase_delay" /\ delays' = delays + 1
              /\ pollEnd = "none"]_vars
    /\ [][(pc = "firebase_poll" /\ FirebaseReady /\ pc' # pc) =>
              pc' = "firebase_check" /\ delays' = delays]_vars

\* the store was ready on the first poll
C17_Witness ==
    pollEnd = "ready" /\ polls = 1 /\ delays = 0 /\ pc = "firebase_check"


\* C18 as stated: the timeout diagnostic is emitted only if the polling
\* loop exhausted its bound and the success diagnostic only if the loop
\* ended on a ready poll.
C18_DiagReportsLoopEnd ==
    /\ Did("Firebase Timeout!") => pollEnd = "exhausted"
    /\ Did("Firebase Connected!") => pollEnd = "ready"

\* C18 amended: the startup diagnostic reports the readiness check made
\* after the polling loop (line 69), whichever way the loop ended: the
\* timeout diagnostic is emitted exactly when that check is not ready, the
\* success diagnostic exactly when it is ready, and one of the two is
\* emitted as soon as the check is made.
C18_DiagReportsCheck ==
    /\ Did("Firebase Timeout!") <=> Did("check: not ready")
    /\ Did("Firebase Connected!") <=> Did("check: ready")
    /\ ~(Did("check: ready") /\ Did("check: not ready"))
    /\ (Did("check: ready") \/ Did("check: not ready")) <=>
           (pollEnd # "none" /\ pc # "firebase_check")
    /\ Count(boot, "Firebase Timeout!")
           + Count(boot, "Firebase Connected!") <= 1

\* the loop ended on a ready poll and the timeout diagnostic was emitted
C18_Witness ==
    pollEnd = "ready" /\ Did("Firebase Timeout!") /\ pc = "oled_begin"


\* C19: display.begin is called only after the link was reported up and
\* the polling loop ended (on a ready poll or exhausted); while the link has
\* not been reported up display.begin has not been called, nothing is on
\* the display and no "OLED failed" has been printed, also with a faulty
\* panel.
C19_DisplayInitAfterLinkAndPolling ==
    /\ (pc \in {"oled_begin", "oled_failed", "halt", "splash"}
            \/ Did("display.begin")) =>
           /\ Did("link up")
           /\ pollEnd \in {"ready", "exhausted"}
           /\ polls >= 1
           /\ Did("check: ready") \/ Did("check: not ready")
    /\ ~Did("link up") =>
           /\ ~Did("display.begin") /\ ~Did("OLED failed") /\ ~Did("splash")
           /\ rendered = <<>>
           /\ pc \notin {"oled_begin", "oled_failed", "halt", "splash"}
    /\ rendered # <<>> => Did("display.begin") /\ displayOk

\* a faulty panel, unnoticed while setup() waits for the link
C19_Witness ==
    ~displayOk /\ pc = "wifi_delay" /\ conn = "Disconnected"

====
